---- MODULE Spec2Model ----
(***************************************************************************)
(* Model of src/ml_ddos_detector.py: MLDDoSDetector and DDoSMLIntegrator.  *)
(*                                                                         *)
(* The detector is shared, without any lock, by                            *)
(*   - inline callers (process_request -> record_request),                 *)
(*   - the daemon thread running _periodic_analysis ("sweep"),             *)
(*   - an administrator calling unblock_ip ("admin"),                      *)
(*   - the thread calling shutdown ("main").                               *)
(* Every handler is cut into steps at the places where it reads or writes  *)
(* shared state, so that the interleavings the threads can produce are     *)
(* behaviours of the model.  Adjacent statements that are merged into one  *)
(* step are named by their line numbers in the comment of the step.        *)
(*                                                                         *)
(* The anomaly score (IsolationForest.score_samples) is an input: it is    *)
(* drawn from Scores each time the code scores a key.                      *)
(***************************************************************************)
EXTENDS Integers, Sequences, FiniteSets, TLC

----------------------------------------------------------------------------
(* Bounds and configuration *)

\* keys that send requests in the model
ActiveKeys == {"k1"}
\* keys of the background population: sources that were recorded before the
\* modelled run starts and send nothing afterwards
BgPool == {"g01", "g02", "g03", "g04", "g05", "g06", "g07", "g08", "g09", "g10"}
Keys == ActiveKeys \cup BgPool

Callers == {"c1"}
CleanThreads == Callers \cup {"sweep"}
Threads == Callers \cup {"sweep", "admin", "main"}

\* the clock (time.time()) runs over 0..MaxTime
MaxTime == 1
\* number of process_request calls of one run
MaxRequests == 3
\* number of unblock_ip calls of one run
MaxUnblocks == 1

\* __init__ parameters
BlockThreshold == 40
\* block_threshold of a second detector, fed with the same trace
HigherThreshold == 45
\* keys of that trace
MonoKeys == {"k1", "k2"}
\* length of that trace
MaxMonoSteps == 6
WindowSize == 0
FeaturesWindow == 2

\* anomaly scores and the threshold are in hundredths
Scores == {30, 50, 55, 70}

\* constants of the code
MinSamples == 5
MinIntervals == 2
MinPopulationInline == 10
MinPopulationScore == 10
MinPopulationSweep == 5
InlineNum == 3
InlineDen == 2
SweepNum == 13
SweepDen == 10

\* timestamp of the background population's records: never older than any
\* cutoff the bounded clock can produce
BgTimestamp == MaxTime

----------------------------------------------------------------------------
(* Helpers on dictionaries (functions with a varying domain) and lists *)

Put(f, k, v) == [x \in DOMAIN f \cup {k} |-> IF x = k THEN v ELSE f[x]]

Del(f, k) == [x \in DOMAIN f \ {k} |-> f[x]]

Min2(a, b) == IF a < b THEN a ELSE b

SeqMax(s) == CHOOSE x \in {s[i] : i \in 1..Len(s)} :
                \A y \in {s[i] : i \in 1..Len(s)} : y <= x

SeqMin(s) == CHOOSE x \in {s[i] : i \in 1..Len(s)} :
                \A y \in {s[i] : i \in 1..Len(s)} : x <= y

RECURSIVE SeqSum(_)
SeqSum(s) == IF s = <<>> THEN 0 ELSE Head(s) + SeqSum(Tail(s))

Timestamps(data) == [i \in 1..Len(data) |-> data[i].timestamp]

\* an append that never drops the oldest item
DequeAppend_Unbounded(dq, r) == Append(dq, r)

\* deque(maxlen=features_window).append: the oldest item falls out on overflow
DequeAppend(dq, r) ==
    IF FeaturesWindow = 0 THEN <<>>
    ELSE IF Len(dq) >= FeaturesWindow
         THEN SubSeq(dq, Len(dq) - FeaturesWindow + 2, Len(dq)) \o <<r>>
         ELSE Append(dq, r)

\* defaultdict.__getitem__: the value read
TrafficGet(td, ip) == IF ip \in DOMAIN td THEN td[ip] ELSE <<>>

\* defaultdict.__getitem__: the dictionary afterwards (a missing key is created)
Touch(d, ip) == IF ip \in DOMAIN d THEN d ELSE Put(d, ip, <<>>)

\* the while loop of _clean_old_data: index of the first timestamp in the window
RECURSIVE FirstFresh(_, _, _)
FirstFresh(timestamps, cutoff_time, idx) ==
    IF idx < Len(timestamps) /\ timestamps[idx + 1] < cutoff_time
    THEN FirstFresh(timestamps, cutoff_time, idx + 1)
    ELSE idx

\* max requests in one 1-second bucket
MaxBurst(timestamps) ==
    LET count(b) == Cardinality({i \in 1..Len(timestamps) : timestamps[i] = b})
        buckets == {timestamps[i] : i \in 1..Len(timestamps)}
    IN  CHOOSE m \in {count(b) : b \in buckets} :
            \A b \in buckets : count(b) <= m

\* the feature vector of a window; req_rate and bytes_rate are kept as their
\* numerator and the time span they are divided by
ExtractFeatures(data) ==
    LET ts == Timestamps(data)
    IN  [req_n       |-> Len(data),
         min_ts      |-> SeqMin(ts),
         max_ts      |-> SeqMax(ts),
         total_bytes |-> SeqSum([i \in 1..Len(data) |-> data[i].bytes]),
         max_burst   |-> MaxBurst(ts)]

\* anomaly_score > block_threshold * num/den
Exceeds(anomaly_score, block_threshold, num, den) ==
    anomaly_score * den > block_threshold * num

Suspicious(anomaly_score) == Exceeds(anomaly_score, BlockThreshold, 1, 1)

BlockInline(anomaly_score) == Exceeds(anomaly_score, BlockThreshold, InlineNum, InlineDen)

BlockSweep(anomaly_score) == Exceeds(anomaly_score, BlockThreshold, SweepNum, SweepDen)

----------------------------------------------------------------------------
VARIABLES
    now,             \* time.time()
    request_count,   \* DDoSMLIntegrator.request_count
    traffic_data,    \* key -> window (deque of records)
    ip_timestamps,   \* key -> list of timestamps
    ip_features,     \* key -> cached feature vector
    blocked_ips,
    suspicious_ips,
    false_positives,
    model,           \* the shared IsolationForest: the thread whose fit it holds
    running,
    disk,            \* content of ml_ddos_state.json
    pc,              \* thread -> position
    req_ip,          \* caller -> ip of the current (or last) call
    req_fields,      \* caller -> fields present in request_data
    result,          \* caller -> outcome of the call: "True", "False", "raise"
    ret_at,          \* caller -> source line of the return (or of the raise)
    cutoff,          \* clean thread -> cutoff_time of its _clean_old_data
    clean_todo,      \* clean thread -> keys of the snapshot not yet visited
    clean_ip,        \* clean thread -> key being pruned
    clean_kept,      \* clean thread -> timestamps[idx:]
    feat,            \* caller -> feature vector computed, not yet stored
    sweep_todo,      \* ip_list entries not yet visited
    sweep_ip,
    save_buf,        \* thread -> the state dict built by _save_state
    unblock_ip_arg,  \* arguments and outcome of the last unblock_ip
    unblock_mark,
    unblock_result,
    unblock_calls,   \* unblock_ip calls made so far
    shutdown_done,
    score,           \* the anomaly score the step just taken decided on, where
                     \* the scores are observed (0: none)
    sweep_caught,    \* the except branch of _periodic_analysis ran since the loop test
    runs,            \* threshold -> a detector fed, alone, with one common trace
    memo,            \* <<population, key>> -> the score the model gave it
    mono_steps       \* length of the common trace

vars == <<now, request_count, traffic_data, ip_timestamps, ip_features,
          blocked_ips, suspicious_ips, false_positives, model, running, disk,
          pc, req_ip, req_fields, result, ret_at, cutoff, clean_todo, clean_ip, clean_kept, feat,
          sweep_todo, sweep_ip, save_buf, unblock_ip_arg, unblock_mark,
          unblock_result, unblock_calls, shutdown_done, score, sweep_caught,
          runs, memo, mono_steps>>

store_vars == <<traffic_data, ip_timestamps, ip_features>>
registry_vars == <<blocked_ips, suspicious_ips, false_positives>>
clean_vars == <<cutoff, clean_todo, clean_ip, clean_kept>>
sweep_vars == <<sweep_todo, sweep_ip>>
admin_vars == <<unblock_ip_arg, unblock_mark, unblock_result, unblock_calls>>
call_vars == <<req_ip, req_fields, result, ret_at, feat>>
mono_vars == <<runs, memo, mono_steps>>
detector_vars == <<now, request_count, store_vars, registry_vars, model, running,
                   disk, pc, call_vars, clean_vars, sweep_vars, save_buf,
                   admin_vars, shutdown_done, score, sweep_caught>>

NoKey == "none"
NoFeat == [req_n |-> 0, min_ts |-> 0, max_ts |-> 0, total_bytes |-> 0, max_burst |-> 0]
NoSave == [blocked_ips |-> {}, false_positives |-> {}]

\* records a background key has sent: enough for its features to be cached
BgSamples == IF Min2(MinSamples, FeaturesWindow) < MinIntervals
             THEN MinIntervals ELSE Min2(MinSamples, FeaturesWindow)

BgWindow == [i \in 1..Min2(BgSamples, FeaturesWindow) |->
                [timestamp |-> BgTimestamp, bytes |-> 1]]

\* sizes of the background population at the start of a run
BgSets == {{}, BgPool}

Bg == DOMAIN traffic_data \cap BgPool

Thresholds == {BlockThreshold, HigherThreshold}

\* a detector (store and registries) after the background population
Fresh ==
    [traffic_data   |-> [k \in BgPool |-> BgWindow],
     ip_timestamps  |-> [k \in BgPool |-> [i \in 1..BgSamples |-> BgTimestamp]],
     ip_features    |-> [k \in BgPool |-> ExtractFeatures(BgWindow)],
     blocked_ips    |-> {},
     suspicious_ips |-> {}]

(***************************************************************************)
(* Init: the detector after construction (empty store, empty registries,   *)
(* the state file absent or empty, the sweep thread started), either       *)
(* untouched or after a background population has been recorded through    *)
(* process_request with nothing flagged.                                   *)
(***************************************************************************)
InitDetector ==
    /\ now = 0
    /\ \E bg \in BgSets :
        /\ traffic_data = [k \in bg |-> BgWindow]
        /\ ip_timestamps = [k \in bg |-> [i \in 1..BgSamples |-> BgTimestamp]]
        /\ ip_features = [k \in bg |-> ExtractFeatures(BgWindow)]
        /\ request_count = Cardinality(bg) * BgSamples
    /\ blocked_ips = {}
    /\ suspicious_ips = {}
    /\ false_positives = {}
    /\ model = "unfitted"
    /\ running = TRUE
    /\ disk = NoSave
    /\ pc = [t \in Threads |-> IF t = "sweep" THEN "top" ELSE "idle"]
    /\ req_ip = [c \in Callers |-> NoKey]
    /\ req_fields = [c \in Callers |-> {}]
    /\ result = [c \in Callers |-> "none"]
    /\ ret_at = [c \in Callers |-> 0]
    /\ cutoff = [t \in CleanThreads |-> 0]
    /\ clean_todo = [t \in CleanThreads |-> {}]
    /\ clean_ip = [t \in CleanThreads |-> NoKey]
    /\ clean_kept = [t \in CleanThreads |-> <<>>]
    /\ feat = [c \in Callers |-> NoFeat]
    /\ sweep_todo = {}
    /\ sweep_ip = NoKey
    /\ save_buf = [t \in Threads |-> NoSave]
    /\ unblock_ip_arg = NoKey
    /\ unblock_mark = FALSE
    /\ unblock_result = "none"
    /\ unblock_calls = 0
    /\ shutdown_done = FALSE
    /\ score = 0
    /\ sweep_caught = FALSE

\* one detector is constructed
Init ==
    /\ InitDetector
    /\ runs = <<>>
    /\ memo = <<>>
    /\ mono_steps = 0

\* two more detectors are constructed, which differ in block_threshold only,
\* and have recorded the background population
InitMono ==
    /\ InitDetector
    /\ runs = [T \in Thresholds |-> Fresh]
    /\ memo = <<>>
    /\ mono_steps = 0

----------------------------------------------------------------------------
(* Outcomes of a call and of an exception *)

RequiredFields == {"ip", "timestamp", "bytes_sent"}

\* first request_count of the run
BaseCount == Cardinality(Bg) * BgSamples

\* record_request / process_request returns r ("True", "False"), or an
\* exception leaves it ("raise")
Return(c, r, line) ==
    /\ pc' = [pc EXCEPT ![c] = "done"]
    /\ result' = [result EXCEPT ![c] = r]
    /\ ret_at' = [ret_at EXCEPT ![c] = line]
    /\ feat' = [feat EXCEPT ![c] = NoFeat]
    /\ UNCHANGED <<req_ip, req_fields>>

ResetClean(t) ==
    /\ clean_ip' = [clean_ip EXCEPT ![t] = NoKey]
    /\ clean_kept' = [clean_kept EXCEPT ![t] = <<>>]

\* where a thread goes when its _clean_old_data returns
AfterClean(t) == IF t = "sweep" THEN "top" ELSE "len"

\* lines 220-224: cutoff_time and the snapshot list(self.ip_timestamps.keys()).
\* The background keys are left out of the snapshot: their timestamps are
\* never below a cutoff, so their iterations find idx = 0 and change nothing.
BeginClean(t) ==
    LET snapshot == DOMAIN ip_timestamps' \ BgPool
    IN  /\ cutoff' = [cutoff EXCEPT ![t] =
                        IF snapshot = {} /\ t = "sweep" THEN 0 ELSE now - WindowSize]
        /\ clean_todo' = [clean_todo EXCEPT ![t] = snapshot]
        /\ pc' = [pc EXCEPT ![t] = IF snapshot = {} THEN AfterClean(t) ELSE "clean_read"]
        /\ UNCHANGED <<clean_ip, clean_kept>>

\* the for loop of _clean_old_data goes on with the keys left in rest
NextKey(t, rest) ==
    /\ clean_todo' = [clean_todo EXCEPT ![t] = rest]
    /\ pc' = [pc EXCEPT ![t] = IF rest = {} THEN AfterClean(t) ELSE "clean_read"]
    /\ cutoff' = [cutoff EXCEPT ![t] = IF rest = {} /\ t = "sweep" THEN 0 ELSE @]
    /\ ResetClean(t)

\* an exception inside _clean_old_data: record_request has no handler and the
\* caller gets the exception; _periodic_analysis catches it (line 371) and
\* goes back to the loop test
\* an exception inside the sweep's _clean_old_data that ends the thread
CleanRaise_Exits(t) ==
    /\ clean_todo' = [clean_todo EXCEPT ![t] = {}]
    /\ ResetClean(t)
    /\ cutoff' = [cutoff EXCEPT ![t] = 0]
    /\ IF t = "sweep"
       THEN /\ pc' = [pc EXCEPT ![t] = "exit"]
            /\ sweep_caught' = TRUE
            /\ UNCHANGED call_vars
       ELSE Return(t, "raise", 240) /\ UNCHANGED sweep_caught

CleanRaise(t) ==
    /\ clean_todo' = [clean_todo EXCEPT ![t] = {}]
    /\ ResetClean(t)
    /\ cutoff' = [cutoff EXCEPT ![t] = 0]
    /\ IF t = "sweep"
       THEN /\ pc' = [pc EXCEPT ![t] = "top"]
            /\ sweep_caught' = TRUE
            /\ UNCHANGED call_vars
       ELSE Return(t, "raise", 240) /\ UNCHANGED sweep_caught

----------------------------------------------------------------------------
(* DDoSMLIntegrator.process_request and MLDDoSDetector.record_request *)

\* an incomplete request whose key becomes a tracked source all the same
ProcessIncomplete_Tracks(c) ==
    /\ pc[c] = "idle"
    /\ request_count < BaseCount + MaxRequests
    /\ \E missing \in RequiredFields, ip \in ActiveKeys :
        /\ req_fields' = [req_fields EXCEPT ![c] = RequiredFields \ {missing}]
        /\ request_count' = request_count + 1
        /\ req_ip' = [req_ip EXCEPT ![c] = NoKey]
        /\ traffic_data' = Touch(traffic_data, ip)
    /\ pc' = [pc EXCEPT ![c] = "done"]
    /\ result' = [result EXCEPT ![c] = "True"]
    /\ ret_at' = [ret_at EXCEPT ![c] = 430]
    /\ score' = 0
    /\ UNCHANGED <<mono_vars, sweep_caught, now, ip_timestamps, ip_features, registry_vars, model, running,
                   disk, clean_vars, feat, sweep_vars, save_buf, admin_vars,
                   shutdown_done>>

\* lines 424-430: a required field is missing
ProcessIncomplete(c) ==
    /\ pc[c] = "idle"
    /\ request_count < BaseCount + MaxRequests
    /\ \E missing \in RequiredFields :
        /\ req_fields' = [req_fields EXCEPT ![c] = RequiredFields \ {missing}]
        /\ request_count' = request_count + 1
        /\ req_ip' = [req_ip EXCEPT ![c] = NoKey]
    /\ pc' = [pc EXCEPT ![c] = "done"]
    /\ result' = [result EXCEPT ![c] = "True"]
    /\ ret_at' = [ret_at EXCEPT ![c] = 430]
    /\ score' = 0
    /\ UNCHANGED <<mono_vars, sweep_caught, now, store_vars, registry_vars, model, running, disk,
                   clean_vars, feat, sweep_vars, save_buf, admin_vars,
                   shutdown_done>>

\* a blocked key whose request is rejected only after it was recorded
RecordBlocked_Records(c) ==
    /\ pc[c] = "idle"
    /\ request_count < BaseCount + MaxRequests
    /\ \E ip \in ActiveKeys, timestamp \in 0..MaxTime :
        /\ ip \in blocked_ips
        /\ request_count' = request_count + 1
        /\ req_ip' = [req_ip EXCEPT ![c] = ip]
        /\ traffic_data' = Put(traffic_data, ip,
               DequeAppend(TrafficGet(traffic_data, ip),
                           [timestamp |-> timestamp, bytes |-> 1]))
    /\ req_fields' = [req_fields EXCEPT ![c] = RequiredFields]
    /\ result' = [result EXCEPT ![c] = "False"]
    /\ ret_at' = [ret_at EXCEPT ![c] = 127]
    /\ pc' = [pc EXCEPT ![c] = "done"]
    /\ score' = 0
    /\ UNCHANGED <<mono_vars, sweep_caught, now, ip_timestamps, ip_features, registry_vars, model, running,
                   disk, clean_vars, feat, sweep_vars, save_buf, admin_vars,
                   shutdown_done>>

\* lines 424-433, 126-127: the key is blocked
RecordBlocked(c) ==
    /\ pc[c] = "idle"
    /\ request_count < BaseCount + MaxRequests
    /\ \E ip \in ActiveKeys :
        /\ ip \in blocked_ips
        /\ request_count' = request_count + 1
        /\ req_ip' = [req_ip EXCEPT ![c] = ip]
    /\ req_fields' = [req_fields EXCEPT ![c] = RequiredFields]
    /\ result' = [result EXCEPT ![c] = "False"]
    /\ ret_at' = [ret_at EXCEPT ![c] = 127]
    /\ pc' = [pc EXCEPT ![c] = "done"]
    /\ score' = 0
    /\ UNCHANGED <<mono_vars, sweep_caught, now, store_vars, registry_vars, model, running, disk,
                   clean_vars, feat, sweep_vars, save_buf, admin_vars,
                   shutdown_done>>

\* lines 424-433, 126-139, 142, 220-224: the record is stored and the prune starts
RecordAccepted(c) ==
    /\ pc[c] = "idle"
    /\ request_count < BaseCount + MaxRequests
    /\ \E ip \in ActiveKeys, timestamp \in 0..MaxTime :
        /\ ip \notin blocked_ips
        /\ request_count' = request_count + 1
        /\ traffic_data' = Put(traffic_data, ip,
               DequeAppend(TrafficGet(traffic_data, ip),
                           [timestamp |-> timestamp, bytes |-> 1]))
        /\ ip_timestamps' = Put(ip_timestamps, ip,
               Append(TrafficGet(ip_timestamps, ip), timestamp))
        /\ req_ip' = [req_ip EXCEPT ![c] = ip]
    /\ req_fields' = [req_fields EXCEPT ![c] = RequiredFields]
    /\ BeginClean(c)
    /\ score' = 0
    /\ UNCHANGED <<mono_vars, sweep_caught, now, ip_features, registry_vars, model, running, disk, result,
                   ret_at, feat, sweep_vars, save_buf, admin_vars, shutdown_done>>

----------------------------------------------------------------------------
(* MLDDoSDetector._clean_old_data, run by a caller or by the sweep *)

\* lines 224-232: the next key of the snapshot, its list and idx
CleanRead(t) ==
    /\ pc[t] = "clean_read"
    /\ \E ip \in clean_todo[t] :
        LET timestamps == TrafficGet(ip_timestamps, ip)
            idx == FirstFresh(timestamps, cutoff[t], 0)
            rest == clean_todo[t] \ {ip}
        IN  /\ ip_timestamps' = Touch(ip_timestamps, ip)
            /\ IF idx > 0
               THEN /\ clean_ip' = [clean_ip EXCEPT ![t] = ip]
                    /\ clean_kept' = [clean_kept EXCEPT ![t] =
                                         SubSeq(timestamps, idx + 1, Len(timestamps))]
                    /\ clean_todo' = [clean_todo EXCEPT ![t] = rest]
                    /\ pc' = [pc EXCEPT ![t] = "clean_write"]
                    /\ UNCHANGED cutoff
               ELSE NextKey(t, rest)
    /\ score' = 0
    /\ UNCHANGED <<mono_vars, sweep_caught, now, request_count, traffic_data, ip_features, registry_vars,
                   model, running, disk, call_vars, sweep_vars, save_buf,
                   admin_vars, shutdown_done>>

\* lines 236-239: the trimmed list is stored; is it empty?
CleanWrite(t) ==
    /\ pc[t] = "clean_write"
    /\ ip_timestamps' = Put(ip_timestamps, clean_ip[t], clean_kept[t])
    /\ IF clean_kept[t] = <<>>
       THEN /\ pc' = [pc EXCEPT ![t] = "clean_del_ts"]
            /\ UNCHANGED <<cutoff, clean_todo, clean_ip, clean_kept>>
       ELSE NextKey(t, clean_todo[t])
    /\ score' = 0
    /\ UNCHANGED <<mono_vars, sweep_caught, now, request_count, traffic_data, ip_features, registry_vars,
                   model, running, disk, call_vars, sweep_vars, save_buf,
                   admin_vars, shutdown_done>>

\* line 240: del self.ip_timestamps[ip]
CleanDelTimestamps(t) ==
    /\ pc[t] = "clean_del_ts"
    /\ clean_ip[t] \in DOMAIN ip_timestamps
    /\ ip_timestamps' = Del(ip_timestamps, clean_ip[t])
    /\ pc' = [pc EXCEPT ![t] = "clean_del_rest"]
    /\ score' = 0
    /\ UNCHANGED <<mono_vars, sweep_caught, now, request_count, traffic_data, ip_features, registry_vars,
                   model, running, disk, call_vars, clean_vars, sweep_vars,
                   save_buf, admin_vars, shutdown_done>>

\* line 240 when another thread has deleted the key: KeyError
CleanKeyError(t) ==
    /\ pc[t] = "clean_del_ts"
    /\ clean_ip[t] \notin DOMAIN ip_timestamps
    /\ CleanRaise(t)
    /\ score' = 0
    /\ UNCHANGED <<mono_vars, now, request_count, store_vars, registry_vars, model,
                   running, disk, sweep_vars, save_buf, admin_vars, shutdown_done>>

\* an eviction that also forgets that the key is blocked
CleanDelRest_Unblocks(t) ==
    /\ pc[t] = "clean_del_rest"
    /\ traffic_data' = Del(traffic_data, clean_ip[t])
    /\ ip_features' = Del(ip_features, clean_ip[t])
    /\ blocked_ips' = blocked_ips \ {clean_ip[t]}
    /\ NextKey(t, clean_todo[t])
    /\ score' = 0
    /\ UNCHANGED <<mono_vars, sweep_caught, now, request_count, ip_timestamps, suspicious_ips,
                   false_positives, model, running, disk, call_vars, sweep_vars,
                   save_buf, admin_vars, shutdown_done>>

\* lines 241-244: the key leaves the window store and the feature cache
CleanDelRest(t) ==
    /\ pc[t] = "clean_del_rest"
    /\ traffic_data' = Del(traffic_data, clean_ip[t])
    /\ ip_features' = Del(ip_features, clean_ip[t])
    /\ NextKey(t, clean_todo[t])
    /\ score' = 0
    /\ UNCHANGED <<mono_vars, sweep_caught, now, request_count, ip_timestamps, registry_vars, model,
                   running, disk, call_vars, sweep_vars, save_buf,
                   admin_vars, shutdown_done>>

----------------------------------------------------------------------------
(* record_request after the prune *)

\* a sample-count test that lets any non-empty window through
CheckLen_NoSampleTest(c) ==
    /\ pc[c] = "len"
    /\ LET n == Len(TrafficGet(traffic_data, req_ip[c]))
       IN  /\ traffic_data' = Touch(traffic_data, req_ip[c])
           /\ IF n >= 1
              THEN /\ pc' = [pc EXCEPT ![c] = "extract"]
                   /\ UNCHANGED call_vars
              ELSE Return(c, "True", 152)
    /\ cutoff' = [cutoff EXCEPT ![c] = IF pc'[c] = "extract" THEN @ ELSE 0]
    /\ score' = 0
    /\ UNCHANGED <<mono_vars, sweep_caught, now, request_count, ip_timestamps,
                   ip_features, registry_vars, model, running, disk, clean_todo,
                   clean_ip, clean_kept, sweep_vars, save_buf, admin_vars,
                   shutdown_done>>

\* lines 145-146, 156-157: enough samples?  (self.traffic_data[ip] creates a
\* missing key); line 149 when _extract_features_for_ip returned at 157
CheckLen(c) ==
    /\ pc[c] = "len"
    /\ LET n == Len(TrafficGet(traffic_data, req_ip[c]))
       IN  /\ traffic_data' = Touch(traffic_data, req_ip[c])
           /\ IF n >= Min2(MinSamples, FeaturesWindow)
              THEN IF n < MinIntervals
                   THEN IF /\ req_ip[c] \in DOMAIN ip_features
                           /\ Cardinality(DOMAIN ip_features) > MinPopulationInline
                        THEN /\ pc' = [pc EXCEPT ![c] = "check"]
                             /\ UNCHANGED call_vars
                        ELSE Return(c, "True", 152)
                   ELSE /\ pc' = [pc EXCEPT ![c] = "extract"]
                        /\ UNCHANGED call_vars
              ELSE Return(c, "True", 152)
    /\ cutoff' = [cutoff EXCEPT ![c] = IF pc'[c] = "extract" THEN @ ELSE 0]
    /\ score' = 0
    /\ UNCHANGED <<mono_vars, sweep_caught, now, request_count, ip_timestamps, ip_features, registry_vars,
                   model, running, disk, clean_todo, clean_ip, clean_kept,
                   sweep_vars, save_buf, admin_vars, shutdown_done>>

\* lines 159-202: the window is read and the features are computed
ExtractRead(c) ==
    /\ pc[c] = "extract"
    /\ TrafficGet(traffic_data, req_ip[c]) # <<>>
    /\ traffic_data' = Touch(traffic_data, req_ip[c])
    /\ feat' = [feat EXCEPT ![c] = ExtractFeatures(TrafficGet(traffic_data, req_ip[c]))]
    /\ pc' = [pc EXCEPT ![c] = "store"]
    /\ score' = 0
    /\ UNCHANGED <<mono_vars, sweep_caught, now, request_count, ip_timestamps, ip_features, registry_vars,
                   model, running, disk, req_ip, req_fields, result, ret_at,
                   clean_vars, sweep_vars, save_buf, admin_vars, shutdown_done>>

\* lines 159-166 when the key was evicted after line 156: max() of an empty
\* list raises ValueError, which record_request does not catch
ExtractValueError(c) ==
    /\ pc[c] = "extract"
    /\ TrafficGet(traffic_data, req_ip[c]) = <<>>
    /\ traffic_data' = Touch(traffic_data, req_ip[c])
    /\ Return(c, "raise", 166)
    /\ cutoff' = [cutoff EXCEPT ![c] = 0]
    /\ score' = 0
    /\ UNCHANGED <<mono_vars, sweep_caught, now, request_count, ip_timestamps, ip_features, registry_vars,
                   model, running, disk, clean_todo, clean_ip, clean_kept,
                   sweep_vars, save_buf, admin_vars, shutdown_done>>

\* lines 205-216, 149: the vector is cached; is the population large enough?
StoreFeatures(c) ==
    /\ pc[c] = "store"
    /\ ip_features' = Put(ip_features, req_ip[c], feat[c])
    /\ IF Cardinality(DOMAIN ip_features') > MinPopulationInline
       THEN /\ pc' = [pc EXCEPT ![c] = "check"]
            /\ feat' = [feat EXCEPT ![c] = NoFeat]
            /\ UNCHANGED <<req_ip, req_fields, result, ret_at>>
       ELSE Return(c, "True", 152)
    /\ cutoff' = [cutoff EXCEPT ![c] = 0]
    /\ score' = 0
    /\ UNCHANGED <<mono_vars, sweep_caught, now, request_count, traffic_data, ip_timestamps, registry_vars,
                   model, running, disk, clean_todo, clean_ip, clean_kept,
                   sweep_vars, save_buf, admin_vars, shutdown_done>>

\* lines 248-265 of _check_anomaly_realtime: the false-positive test, the
\* population test, the scaler (local) and the fit of the shared model
CheckAnomaly(c) ==
    /\ pc[c] = "check"
    /\ IF req_ip[c] \in false_positives
       THEN Return(c, "True", 249) /\ UNCHANGED model
       ELSE IF Cardinality(DOMAIN ip_features) < MinPopulationScore
            THEN Return(c, "True", 256) /\ UNCHANGED model
            ELSE /\ model' = c
                 /\ pc' = [pc EXCEPT ![c] = "score"]
                 /\ UNCHANGED call_vars
    /\ score' = 0
    /\ UNCHANGED <<mono_vars, sweep_caught, now, request_count, store_vars, registry_vars, running, disk,
                   clean_vars, sweep_vars, save_buf, admin_vars, shutdown_done>>

\* a decision that blocks above 1.3 times the threshold, as the sweep does
DecideInline_SweepMultiplier(c, anomaly_score) ==
    IF Suspicious(anomaly_score)
    THEN /\ suspicious_ips' = suspicious_ips \cup {req_ip[c]}
         /\ UNCHANGED false_positives
         /\ IF BlockSweep(anomaly_score)
            THEN IF req_ip[c] \notin blocked_ips
                 THEN /\ blocked_ips' = blocked_ips \cup {req_ip[c]}
                      /\ pc' = [pc EXCEPT ![c] = "save_snap"]
                      /\ UNCHANGED call_vars
                 ELSE Return(c, "False", 280) /\ UNCHANGED blocked_ips
            ELSE Return(c, "True", 282) /\ UNCHANGED blocked_ips
    ELSE Return(c, "True", 282) /\ UNCHANGED registry_vars

\* lines 273-282 and 289-291: the decision on the score
DecideInline(c, anomaly_score) ==
    IF Suspicious(anomaly_score)
    THEN /\ suspicious_ips' = suspicious_ips \cup {req_ip[c]}
         /\ UNCHANGED false_positives
         /\ IF BlockInline(anomaly_score)
            THEN IF req_ip[c] \notin blocked_ips
                 THEN /\ blocked_ips' = blocked_ips \cup {req_ip[c]}
                      /\ pc' = [pc EXCEPT ![c] = "save_snap"]
                      /\ UNCHANGED call_vars
                 ELSE Return(c, "False", 280) /\ UNCHANGED blocked_ips
            ELSE Return(c, "True", 282) /\ UNCHANGED blocked_ips
    ELSE Return(c, "True", 282) /\ UNCHANGED registry_vars

\* lines 268-285: the score and the decision; a KeyError at line 268 (the key
\* was evicted) is caught at line 283.  With seen, the step shows its score.
ScoreInlineAs(c, seen) ==
    /\ pc[c] = "score"
    /\ IF req_ip[c] \notin DOMAIN ip_features
       THEN Return(c, "True", 285) /\ UNCHANGED registry_vars /\ score' = 0
       ELSE \E anomaly_score \in Scores :
              /\ score' = IF seen THEN anomaly_score ELSE 0
              /\ DecideInline(c, anomaly_score)
    /\ UNCHANGED <<mono_vars, sweep_caught, now, request_count, store_vars, model,
                   running, disk, clean_vars, sweep_vars, save_buf, admin_vars,
                   shutdown_done>>

ScoreInline(c) == ScoreInlineAs(c, FALSE)

ScoreInlineSeen(c) == ScoreInlineAs(c, TRUE)

----------------------------------------------------------------------------
(* MLDDoSDetector._periodic_analysis *)

\* the for loop of lines 353-366 goes on with the keys left in rest; after
\* the last one line 369 starts the prune
SweepNext(rest) ==
    /\ sweep_todo' = rest
    /\ sweep_ip' = NoKey
    /\ IF rest = {}
       THEN BeginClean("sweep")
       ELSE /\ pc' = [pc EXCEPT !["sweep"] = "sweep_check"]
            /\ UNCHANGED clean_vars

\* a loop test that does not look at the flag
SweepTop_IgnoresFlag ==
    /\ pc["sweep"] = "top"
    /\ pc' = [pc EXCEPT !["sweep"] = "sleep"]
    /\ sweep_caught' = FALSE
    /\ score' = 0
    /\ UNCHANGED <<mono_vars, now, request_count, store_vars, registry_vars, model,
                   running, disk, call_vars, clean_vars, sweep_vars, save_buf,
                   admin_vars, shutdown_done>>

\* line 329: while self.running
SweepTop ==
    /\ pc["sweep"] = "top"
    /\ pc' = [pc EXCEPT !["sweep"] = IF running THEN "sleep" ELSE "exit"]
    /\ sweep_caught' = FALSE
    /\ score' = 0
    /\ UNCHANGED <<mono_vars, now, request_count, store_vars, registry_vars, model,
                   running, disk, call_vars, clean_vars, sweep_vars, save_buf,
                   admin_vars, shutdown_done>>

\* lines 332-336: the sleep ends and fewer than 5 sources have features
SweepSkip ==
    /\ pc["sweep"] = "sleep"
    /\ Cardinality(DOMAIN ip_features) < MinPopulationSweep
    /\ pc' = [pc EXCEPT !["sweep"] = "top"]
    /\ score' = 0
    /\ UNCHANGED <<mono_vars, sweep_caught, now, request_count, store_vars, registry_vars, model, running,
                   disk, call_vars, clean_vars, sweep_vars, save_buf, admin_vars,
                   shutdown_done>>

\* lines 332-350: the sleep ends, ip_list is taken and the model is fitted.
\* The background keys are left out of the loop that follows: their scores
\* are taken to be at most the threshold, so their iterations change nothing.
SweepFit ==
    /\ pc["sweep"] = "sleep"
    /\ Cardinality(DOMAIN ip_features) >= MinPopulationSweep
    /\ model' = "sweep"
    /\ UNCHANGED ip_timestamps
    /\ SweepNext(DOMAIN ip_features \ BgPool)
    /\ score' = 0
    /\ UNCHANGED <<mono_vars, sweep_caught, now, request_count, traffic_data, ip_features, registry_vars,
                   running, disk, call_vars, save_buf, admin_vars, shutdown_done>>

\* lines 353-355: the next key of ip_list; blocked and false-positive keys
\* are skipped
SweepCheck ==
    /\ pc["sweep"] = "sweep_check"
    /\ UNCHANGED ip_timestamps
    /\ \E ip \in sweep_todo :
        IF ip \in blocked_ips \/ ip \in false_positives
        THEN SweepNext(sweep_todo \ {ip})
        ELSE /\ sweep_ip' = ip
             /\ sweep_todo' = sweep_todo \ {ip}
             /\ pc' = [pc EXCEPT !["sweep"] = "sweep_decide"]
             /\ UNCHANGED clean_vars
    /\ score' = 0
    /\ UNCHANGED <<mono_vars, sweep_caught, now, request_count, traffic_data,
                   ip_features, registry_vars, model, running, disk, call_vars,
                   save_buf, admin_vars, shutdown_done>>

\* lines 357-366 and 289-291: the decision on the key's score.  With seen,
\* the step shows its score.
SweepDecideAs(seen) ==
    /\ pc["sweep"] = "sweep_decide"
    /\ UNCHANGED ip_timestamps
    /\ \E anomaly_score \in Scores :
        /\ score' = IF seen THEN anomaly_score ELSE 0
        /\ IF Suspicious(anomaly_score)
           THEN /\ suspicious_ips' = suspicious_ips \cup {sweep_ip}
                /\ UNCHANGED false_positives
                /\ IF BlockSweep(anomaly_score) /\ sweep_ip \notin blocked_ips
                   THEN /\ blocked_ips' = blocked_ips \cup {sweep_ip}
                        /\ pc' = [pc EXCEPT !["sweep"] = "save_snap"]
                        /\ UNCHANGED <<sweep_vars, clean_vars>>
                   ELSE /\ UNCHANGED blocked_ips
                        /\ SweepNext(sweep_todo)
           ELSE /\ UNCHANGED registry_vars
                /\ SweepNext(sweep_todo)
    /\ UNCHANGED <<mono_vars, sweep_caught, now, request_count, traffic_data,
                   ip_features, model, running, disk, call_vars, save_buf,
                   admin_vars, shutdown_done>>

SweepDecide == SweepDecideAs(FALSE)

\* lines 371-372: an exception raised by the training (343-347), the scoring
\* (350) or an iteration of the for loop (353-366) is caught and logged; the
\* rest of the iteration is dropped and control is back at the loop test
SweepRaises ==
    /\ \/ pc["sweep"] = "sleep" /\ Cardinality(DOMAIN ip_features) >= MinPopulationSweep
       \/ pc["sweep"] \in {"sweep_check", "sweep_decide"}
    /\ pc' = [pc EXCEPT !["sweep"] = "top"]
    /\ sweep_todo' = {}
    /\ sweep_ip' = NoKey
    /\ sweep_caught' = TRUE
    /\ score' = 0
    /\ UNCHANGED <<mono_vars, now, request_count, store_vars, registry_vars, model,
                   running, disk, call_vars, clean_vars, save_buf, admin_vars,
                   shutdown_done>>

SweepDecideSeen == SweepDecideAs(TRUE)

----------------------------------------------------------------------------
(* MLDDoSDetector._save_state, run by whoever blocks, unblocks or shuts down *)

\* lines 97-101: the state dict is built from the sets as they are now
SaveSnapshot(t) ==
    /\ pc[t] = "save_snap"
    /\ save_buf' = [save_buf EXCEPT ![t] =
                       [blocked_ips |-> blocked_ips, false_positives |-> false_positives]]
    /\ pc' = [pc EXCEPT ![t] = "save_write"]
    /\ score' = 0
    /\ UNCHANGED <<mono_vars, sweep_caught, now, request_count, store_vars, registry_vars, model, running,
                   disk, call_vars, clean_vars, sweep_vars, admin_vars,
                   shutdown_done>>

\* lines 102-103: the file is written; then _save_state's caller goes on:
\* _block_ip returns into record_request (line 280) or the sweep's loop,
\* unblock_ip returns True (line 324), shutdown returns (line 389)
SaveWrite(t) ==
    /\ pc[t] = "save_write"
    /\ disk' = save_buf[t]
    /\ save_buf' = [save_buf EXCEPT ![t] = NoSave]
    /\ UNCHANGED ip_timestamps
    /\ CASE t \in Callers ->
              /\ Return(t, "False", 280)
              /\ UNCHANGED <<clean_vars, sweep_vars, admin_vars, shutdown_done>>
         [] t = "sweep" ->
              /\ SweepNext(sweep_todo)
              /\ UNCHANGED <<call_vars, admin_vars, shutdown_done>>
         [] t = "admin" ->
              /\ pc' = [pc EXCEPT ![t] = "done"]
              /\ unblock_result' = "True"
              /\ UNCHANGED <<unblock_ip_arg, unblock_mark, unblock_calls, call_vars, clean_vars,
                             sweep_vars, shutdown_done>>
         [] t = "main" ->
              /\ pc' = [pc EXCEPT ![t] = "done"]
              /\ shutdown_done' = TRUE
              /\ UNCHANGED <<call_vars, clean_vars, sweep_vars, admin_vars>>
    /\ score' = 0
    /\ UNCHANGED <<mono_vars, sweep_caught, now, request_count, traffic_data, ip_features, registry_vars,
                   model, running>>

----------------------------------------------------------------------------
(* MLDDoSDetector.unblock_ip *)

\* an unblock that also withdraws the key's suspicious flag
UnblockRemove_ClearsSuspicious ==
    /\ pc["admin"] = "idle"
    /\ unblock_calls < MaxUnblocks
    /\ unblock_calls' = unblock_calls + 1
    /\ \E ip \in ActiveKeys, mark_as_false_positive \in BOOLEAN :
        /\ ip \in blocked_ips
        /\ blocked_ips' = blocked_ips \ {ip}
        /\ false_positives' = IF mark_as_false_positive
                              THEN false_positives \cup {ip}
                              ELSE false_positives
        /\ unblock_ip_arg' = ip
        /\ unblock_mark' = mark_as_false_positive
        /\ unblock_result' = "none"
    /\ pc' = [pc EXCEPT !["admin"] = "save_snap"]
    /\ score' = 0
    /\ suspicious_ips' = suspicious_ips \ {unblock_ip_arg'}
    /\ UNCHANGED <<mono_vars, sweep_caught, now, request_count, store_vars, model, running,
                   disk, call_vars, clean_vars, sweep_vars, save_buf,
                   shutdown_done>>

\* lines 313-319: the key is blocked; it is removed from blocked_ips and, if
\* asked, marked as a false positive
UnblockRemove ==
    /\ pc["admin"] = "idle"
    /\ unblock_calls < MaxUnblocks
    /\ unblock_calls' = unblock_calls + 1
    /\ \E ip \in ActiveKeys, mark_as_false_positive \in BOOLEAN :
        /\ ip \in blocked_ips
        /\ blocked_ips' = blocked_ips \ {ip}
        /\ false_positives' = IF mark_as_false_positive
                              THEN false_positives \cup {ip}
                              ELSE false_positives
        /\ unblock_ip_arg' = ip
        /\ unblock_mark' = mark_as_false_positive
        /\ unblock_result' = "none"
    /\ pc' = [pc EXCEPT !["admin"] = "save_snap"]
    /\ score' = 0
    /\ UNCHANGED <<mono_vars, sweep_caught, now, request_count, store_vars, suspicious_ips, model, running,
                   disk, call_vars, clean_vars, sweep_vars, save_buf,
                   shutdown_done>>

\* an unblock of a key that is not blocked which still marks it
UnblockNotBlocked_Marks ==
    /\ pc["admin"] = "idle"
    /\ unblock_calls < MaxUnblocks
    /\ unblock_calls' = unblock_calls + 1
    /\ \E ip \in ActiveKeys, mark_as_false_positive \in BOOLEAN :
        /\ ip \notin blocked_ips
        /\ false_positives' = IF mark_as_false_positive
                              THEN false_positives \cup {ip}
                              ELSE false_positives
        /\ unblock_ip_arg' = ip
        /\ unblock_mark' = mark_as_false_positive
        /\ unblock_result' = "False"
    /\ pc' = [pc EXCEPT !["admin"] = "done"]
    /\ score' = 0
    /\ UNCHANGED <<mono_vars, sweep_caught, now, request_count, store_vars, blocked_ips, suspicious_ips,
                   model, running, disk, call_vars, clean_vars, sweep_vars,
                   save_buf, shutdown_done>>

\* lines 313, 325: the key is not blocked
UnblockNotBlocked ==
    /\ pc["admin"] = "idle"
    /\ unblock_calls < MaxUnblocks
    /\ unblock_calls' = unblock_calls + 1
    /\ \E ip \in ActiveKeys, mark_as_false_positive \in BOOLEAN :
        /\ ip \notin blocked_ips
        /\ unblock_ip_arg' = ip
        /\ unblock_mark' = mark_as_false_positive
        /\ unblock_result' = "False"
    /\ pc' = [pc EXCEPT !["admin"] = "done"]
    /\ score' = 0
    /\ UNCHANGED <<mono_vars, sweep_caught, now, request_count, store_vars, registry_vars, model, running,
                   disk, call_vars, clean_vars, sweep_vars, save_buf,
                   shutdown_done>>

----------------------------------------------------------------------------
(* The caller of process_request or of unblock_ip has the outcome and is free *)
(* to call again                                                             *)

CallerReturns(c) ==
    /\ pc[c] = "done"
    /\ pc' = [pc EXCEPT ![c] = "idle"]
    /\ req_ip' = [req_ip EXCEPT ![c] = NoKey]
    /\ req_fields' = [req_fields EXCEPT ![c] = {}]
    /\ result' = [result EXCEPT ![c] = "none"]
    /\ ret_at' = [ret_at EXCEPT ![c] = 0]
    /\ score' = 0
    /\ UNCHANGED <<mono_vars, sweep_caught, now, request_count, store_vars, registry_vars, model, running,
                   disk, feat, clean_vars, sweep_vars, save_buf, admin_vars,
                   shutdown_done>>

AdminReturns ==
    /\ pc["admin"] = "done"
    /\ pc' = [pc EXCEPT !["admin"] = "idle"]
    /\ unblock_ip_arg' = NoKey
    /\ unblock_mark' = FALSE
    /\ unblock_result' = "none"
    /\ score' = 0
    /\ UNCHANGED <<mono_vars, sweep_caught, now, request_count, store_vars, registry_vars, model, running,
                   disk, call_vars, clean_vars, sweep_vars, save_buf,
                   unblock_calls, shutdown_done>>

----------------------------------------------------------------------------
(* MLDDoSDetector.shutdown *)

\* lines 385-387: the flag is cleared; join(timeout=1.0) then returns when
\* the sweep thread has ended or when the second has passed, whatever the
\* thread is doing then
ShutdownStop ==
    /\ pc["main"] = "idle"
    /\ running' = FALSE
    /\ pc' = [pc EXCEPT !["main"] = "save_snap"]
    /\ score' = 0
    /\ UNCHANGED <<mono_vars, sweep_caught, now, request_count, store_vars, registry_vars, model, disk,
                   call_vars, clean_vars, sweep_vars, save_buf, admin_vars,
                   shutdown_done>>

----------------------------------------------------------------------------
\* time.time() advances
Tick ==
    /\ now < MaxTime
    /\ now' = now + 1
    /\ score' = 0
    /\ UNCHANGED <<mono_vars, sweep_caught, request_count, store_vars,
                   registry_vars, model, running, disk, pc, call_vars, clean_vars, sweep_vars, save_buf, admin_vars,
                   shutdown_done>>

----------------------------------------------------------------------------
(* One detector run alone (no other thread between its statements) with a  *)
(* given block_threshold: record_request and one iteration of              *)
(* _periodic_analysis as functions of the detector d                       *)

\* _clean_old_data, lines 220-244
CleanOldData(d, cutoff_time) ==
    LET idx(ip) == FirstFresh(d.ip_timestamps[ip], cutoff_time, 0)
        kept(ip) == SubSeq(d.ip_timestamps[ip], idx(ip) + 1, Len(d.ip_timestamps[ip]))
        gone == {ip \in DOMAIN d.ip_timestamps : idx(ip) > 0 /\ kept(ip) = <<>>}
    IN  [d EXCEPT
           !.ip_timestamps = [ip \in DOMAIN d.ip_timestamps \ gone |-> kept(ip)],
           !.traffic_data = [ip \in DOMAIN d.traffic_data \ gone |-> d.traffic_data[ip]],
           !.ip_features = [ip \in DOMAIN d.ip_features \ gone |-> d.ip_features[ip]]]

\* record_request for a key that is not blocked, lines 130-146
Recorded(d, ip, timestamp, current_time) ==
    LET r == [timestamp |-> timestamp, bytes |-> 1]
        d1 == [d EXCEPT
                 !.traffic_data = Put(@, ip, DequeAppend(TrafficGet(@, ip), r)),
                 !.ip_timestamps = Put(@, ip, Append(TrafficGet(@, ip), timestamp))]
        d2 == CleanOldData(d1, current_time - WindowSize)
        d3 == [d2 EXCEPT !.traffic_data = Touch(@, ip)]
        n == Len(d3.traffic_data[ip])
    IN  IF n >= Min2(MinSamples, FeaturesWindow) /\ n >= MinIntervals
        THEN [d3 EXCEPT !.ip_features = Put(@, ip, ExtractFeatures(d3.traffic_data[ip]))]
        ELSE d3

\* lines 145, 149, 255: does record_request go on to score the key?
Scored(d, ip) ==
    /\ Len(d.traffic_data[ip]) >= Min2(MinSamples, FeaturesWindow)
    /\ ip \in DOMAIN d.ip_features
    /\ Cardinality(DOMAIN d.ip_features) > MinPopulationInline
    /\ Cardinality(DOMAIN d.ip_features) >= MinPopulationScore

\* lines 273-280 (num/den = 1.5) and 358-366 (num/den = 1.3)
Decided(d, ip, anomaly_score, block_threshold, num, den) ==
    IF Exceeds(anomaly_score, block_threshold, 1, 1)
    THEN [d EXCEPT
            !.suspicious_ips = @ \cup {ip},
            !.blocked_ips = IF Exceeds(anomaly_score, block_threshold, num, den)
                            THEN @ \cup {ip} ELSE @]
    ELSE d

\* the population a fit sees, without the background keys (which never change)
Population(d) == [ip \in DOMAIN d.ip_features \ BgPool |-> d.ip_features[ip]]

\* lines 353-355: the keys an iteration of the sweep decides on
SweepCandidates(d) ==
    IF Cardinality(DOMAIN d.ip_features) < MinPopulationSweep
    THEN {}
    ELSE DOMAIN Population(d) \ d.blocked_ips

\* lines 335-369: one iteration, scores giving the score of each candidate
Swept(d, scores, block_threshold, current_time) ==
    IF Cardinality(DOMAIN d.ip_features) < MinPopulationSweep
    THEN d
    ELSE LET flagged == {ip \in SweepCandidates(d) :
                            Exceeds(scores[ip], block_threshold, 1, 1)}
             blocked == {ip \in flagged :
                            Exceeds(scores[ip], block_threshold, SweepNum, SweepDen)}
         IN  CleanOldData([d EXCEPT !.suspicious_ips = @ \cup flagged,
                                    !.blocked_ips = @ \cup blocked],
                          current_time - WindowSize)

\* the scores some model gives: one score for one population and key
Remembered(given) ==
    /\ \A x \in DOMAIN given \cap DOMAIN memo : given[x] = memo[x]
    /\ memo' = [x \in DOMAIN memo \cup DOMAIN given |->
                   IF x \in DOMAIN memo THEN memo[x] ELSE given[x]]

\* the same request reaches the detector of each threshold
MonoRequest ==
    /\ mono_steps < MaxMonoSteps
    /\ mono_steps' = mono_steps + 1
    /\ \E ip \in MonoKeys, timestamp \in 0..MaxTime :
         LET pre == [T \in Thresholds |->
                       IF ip \in runs[T].blocked_ips THEN runs[T]
                       ELSE Recorded(runs[T], ip, timestamp, now)]
             need == {T \in Thresholds :
                         ip \notin runs[T].blocked_ips /\ Scored(pre[T], ip)}
             asked == {<<Population(pre[T]), ip>> : T \in need}
         IN  \E given \in [asked -> Scores] :
                /\ Remembered(given)
                /\ runs' = [T \in Thresholds |->
                              IF T \in need
                              THEN Decided(pre[T], ip, given[<<Population(pre[T]), ip>>],
                                           T, InlineNum, InlineDen)
                              ELSE pre[T]]
    /\ UNCHANGED detector_vars

\* the detector of each threshold runs one iteration of the sweep
MonoSweep ==
    /\ mono_steps < MaxMonoSteps
    /\ mono_steps' = mono_steps + 1
    /\ LET asked == UNION {{<<Population(runs[T]), ip>> : ip \in SweepCandidates(runs[T])} :
                              T \in Thresholds}
       IN  \E given \in [asked -> Scores] :
              /\ Remembered(given)
              /\ runs' = [T \in Thresholds |->
                            Swept(runs[T],
                                  [ip \in SweepCandidates(runs[T]) |->
                                      given[<<Population(runs[T]), ip>>]],
                                  T, now)]
    /\ UNCHANGED detector_vars

NextMono ==
    \/ MonoRequest
    \/ MonoSweep

\* two detectors that differ in block_threshold only, fed with one trace
SpecMono == InitMono /\ [][NextMono]_vars

Next ==
    \/ \E c \in Callers : ProcessIncomplete(c)
    \/ \E c \in Callers : RecordBlocked(c)
    \/ \E c \in Callers : RecordAccepted(c)
    \/ \E t \in CleanThreads : CleanRead(t)
    \/ \E t \in CleanThreads : CleanWrite(t)
    \/ \E t \in CleanThreads : CleanDelTimestamps(t)
    \/ \E t \in CleanThreads : CleanKeyError(t)
    \/ \E t \in CleanThreads : CleanDelRest(t)
    \/ \E c \in Callers : CheckLen(c)
    \/ \E c \in Callers : ExtractRead(c)
    \/ \E c \in Callers : ExtractValueError(c)
    \/ \E c \in Callers : StoreFeatures(c)
    \/ \E c \in Callers : CheckAnomaly(c)
    \/ \E c \in Callers : ScoreInline(c)
    \/ SweepTop
    \/ SweepSkip
    \/ SweepFit
    \/ SweepCheck
    \/ SweepDecide
    \/ \E t \in Threads : SaveSnapshot(t)
    \/ \E t \in Threads : SaveWrite(t)
    \/ UnblockRemove
    \/ UnblockNotBlocked
    \/ \E c \in Callers : CallerReturns(c)
    \/ AdminReturns
    \/ ShutdownStop
    \/ Tick

Spec == Init /\ [][Next]_vars

\* the detector without administrator and without shutdown
NextCore ==
    \/ \E c \in Callers : ProcessIncomplete(c)
    \/ \E c \in Callers : RecordBlocked(c)
    \/ \E c \in Callers : RecordAccepted(c)
    \/ \E t \in CleanThreads : CleanRead(t)
    \/ \E t \in CleanThreads : CleanWrite(t)
    \/ \E t \in CleanThreads : CleanDelTimestamps(t)
    \/ \E t \in CleanThreads : CleanKeyError(t)
    \/ \E t \in CleanThreads : CleanDelRest(t)
    \/ \E c \in Callers : CheckLen(c)
    \/ \E c \in Callers : ExtractRead(c)
    \/ \E c \in Callers : ExtractValueError(c)
    \/ \E c \in Callers : StoreFeatures(c)
    \/ \E c \in Callers : CheckAnomaly(c)
    \/ \E c \in Callers : ScoreInline(c)
    \/ SweepTop
    \/ SweepSkip
    \/ SweepFit
    \/ SweepCheck
    \/ SweepDecide
    \/ \E t \in Threads : SaveSnapshot(t)
    \/ \E t \in Threads : SaveWrite(t)
    \/ \E c \in Callers : CallerReturns(c)
    \/ Tick

SpecCore == Init /\ [][NextCore]_vars

\* the steps of the thread that runs _periodic_analysis
SweepRuns ==
    \/ SweepTop
    \/ SweepSkip
    \/ SweepFit
    \/ SweepCheck
    \/ SweepDecide
    \/ SweepRaises
    \/ CleanRead("sweep")
    \/ CleanWrite("sweep")
    \/ CleanDelTimestamps("sweep")
    \/ CleanKeyError("sweep")
    \/ CleanDelRest("sweep")
    \/ SaveSnapshot("sweep")
    \/ SaveWrite("sweep")

\* callers, the sweep and shutdown
NextLive ==
    \/ \E c \in Callers : ProcessIncomplete(c)
    \/ \E c \in Callers : RecordBlocked(c)
    \/ \E c \in Callers : RecordAccepted(c)
    \/ \E t \in CleanThreads : CleanRead(t)
    \/ \E t \in CleanThreads : CleanWrite(t)
    \/ \E t \in CleanThreads : CleanDelTimestamps(t)
    \/ \E t \in CleanThreads : CleanKeyError(t)
    \/ \E t \in CleanThreads : CleanDelRest(t)
    \/ \E c \in Callers : CheckLen(c)
    \/ \E c \in Callers : ExtractRead(c)
    \/ \E c \in Callers : ExtractValueError(c)
    \/ \E c \in Callers : StoreFeatures(c)
    \/ \E c \in Callers : CheckAnomaly(c)
    \/ \E c \in Callers : ScoreInline(c)
    \/ SweepTop
    \/ SweepSkip
    \/ SweepFit
    \/ SweepCheck
    \/ SweepDecide
    \/ SweepRaises
    \/ \E t \in Threads : SaveSnapshot(t)
    \/ \E t \in Threads : SaveWrite(t)
    \/ \E c \in Callers : CallerReturns(c)
    \/ ShutdownStop
    \/ Tick

\* the operating system goes on scheduling the sweep thread, and its sleep ends
SpecLive == Init /\ [][NextLive]_vars /\ WF_vars(SweepRuns)

\* the same, with the scores observed
NextScored ==
    \/ \E c \in Callers : ProcessIncomplete(c)
    \/ \E c \in Callers : RecordBlocked(c)
    \/ \E c \in Callers : RecordAccepted(c)
    \/ \E t \in CleanThreads : CleanRead(t)
    \/ \E t \in CleanThreads : CleanWrite(t)
    \/ \E t \in CleanThreads : CleanDelTimestamps(t)
    \/ \E t \in CleanThreads : CleanKeyError(t)
    \/ \E t \in CleanThreads : CleanDelRest(t)
    \/ \E c \in Callers : CheckLen(c)
    \/ \E c \in Callers : ExtractRead(c)
    \/ \E c \in Callers : ExtractValueError(c)
    \/ \E c \in Callers : StoreFeatures(c)
    \/ \E c \in Callers : CheckAnomaly(c)
    \/ \E c \in Callers : ScoreInlineSeen(c)
    \/ SweepTop
    \/ SweepSkip
    \/ SweepFit
    \/ SweepCheck
    \/ SweepDecideSeen
    \/ \E t \in Threads : SaveSnapshot(t)
    \/ \E t \in Threads : SaveWrite(t)
    \/ \E c \in Callers : CallerReturns(c)
    \/ Tick

SpecScored == Init /\ [][NextScored]_vars

----------------------------------------------------------------------------
(* Steps named by the claims *)

\* caller c calls process_request in this step
Calls(c) == pc[c] = "idle" /\ pc'[c] # "idle"

\* the administrator calls unblock_ip in this step
CallsUnblock == pc["admin"] = "idle" /\ pc'["admin"] # "idle"

\* the step that takes key k out of blocked_ips inside unblock_ip
UnblockStep(k) ==
    /\ pc["admin"] = "idle"
    /\ pc'["admin"] = "save_snap"
    /\ unblock_ip_arg' = k

\* a step of the periodic task
SweepStep ==
    \/ pc'["sweep"] # pc["sweep"]
    \/ sweep_todo' # sweep_todo
    \/ sweep_ip' # sweep_ip
    \/ clean_todo'["sweep"] # clean_todo["sweep"]
    \/ clean_ip'["sweep"] # clean_ip["sweep"]
    \/ save_buf'["sweep"] # save_buf["sweep"]

\* the timestamps are non-decreasing
InOrder(timestamps) ==
    \A i \in 1..(Len(timestamps) - 1) : timestamps[i] <= timestamps[i + 1]

Persisted == [blocked_ips |-> blocked_ips, false_positives |-> false_positives]

----------------------------------------------------------------------------
(* C1: a record_request for a key that is in Blocked at the call returns     *)
(* false and leaves the windows, the timestamp index, the feature cache and  *)
(* the Blocked, Suspicious and FalsePositive sets as they were.              *)
C1_BlockedShortCircuit ==
    [][\A c \in Callers :
          (Calls(c) /\ req_ip'[c] \in blocked_ips)
              => /\ pc'[c] = "done"
                 /\ result'[c] = "False"
                 /\ UNCHANGED <<store_vars, registry_vars>>]_vars

C1_Witness ==
    \E c \in Callers :
        /\ pc[c] = "done"
        /\ ret_at[c] = 127
        /\ result[c] = "False"
        /\ req_ip[c] \in blocked_ips
        /\ req_ip[c] \in DOMAIN traffic_data
        /\ traffic_data[req_ip[c]] # <<>>

(* C2: no reachable state has a key both in FalsePositive and in Blocked     *)
(* (so that a record_request for a false-positive key is never rejected),    *)
(* under every interleaving of inline calls, unblock calls and the sweep.    *)
C2_FalsePositiveNeverBlocked == false_positives \cap blocked_ips = {}

(* C3: when unblock(key, mark) returns, key is not in Blocked and, if mark   *)
(* is true, key is in FalsePositive, also when key was not blocked.          *)
C3_UnblockReversibility ==
    [][(pc["admin"] # "done" /\ pc'["admin"] = "done")
          => /\ unblock_ip_arg' \notin blocked_ips'
             /\ unblock_mark' => unblock_ip_arg' \in false_positives']_vars

(* C4: a key in Blocked stays in Blocked, and every record_request called    *)
(* for it returns false, unless the step is the unblock of that key; no      *)
(* step of record_request, the sweep, the prune or shutdown removes it.      *)
C4_BlockedUntilUnblock ==
    [][\A k \in blocked_ips :
          \/ UnblockStep(k)
          \/ /\ k \in blocked_ips'
             /\ \A c \in Callers :
                   (Calls(c) /\ req_ip'[c] = k) => result'[c] = "False"]_vars

C4_Witness ==
    \E k \in blocked_ips, c \in Callers :
        /\ shutdown_done
        /\ pc["sweep"] = "exit"
        /\ pc[c] = "done"
        /\ req_ip[c] = k
        /\ ret_at[c] = 127
        /\ k \notin DOMAIN traffic_data

(* C5: when a prune has run with cutoff now - window_size, no window of a    *)
(* tracked key holds a record older than the cutoff, and the features        *)
(* extracted after it are computed from records not older than the cutoff.   *)
(* Stated for the windows whose records arrived in timestamp order (mixed    *)
(* windows included) while the periodic task is not inside an iteration.     *)
C5_WindowEviction ==
    \A c \in Callers :
        pc["sweep"] \in {"top", "sleep", "exit"} =>
            /\ pc[c] = "len" =>
                  \A k \in DOMAIN traffic_data \cap DOMAIN ip_timestamps :
                      InOrder(Timestamps(traffic_data[k])) =>
                          \A i \in 1..Len(traffic_data[k]) :
                              traffic_data[k][i].timestamp >= cutoff[c]
            /\ (/\ pc[c] = "store"
                /\ InOrder(Timestamps(TrafficGet(traffic_data, req_ip[c]))))
                  => feat[c].min_ts >= cutoff[c]

(* C6: no record_request call ends with an exception.                        *)
C6_NeverRaises == \A c \in Callers : result[c] # "raise"

(* C7: once shutdown has returned, no step of the periodic task changes      *)
(* Blocked, Suspicious, the store or the model, and a persisted state that   *)
(* equals the in-memory sets still equals them after such a step.            *)
C7_NoSweepAfterShutdown ==
    [][(shutdown_done /\ SweepStep)
          => /\ UNCHANGED <<blocked_ips, suspicious_ips, store_vars, model>>
             /\ disk = Persisted => disk' = Persisted']_vars

C9_WindowCapacity ==
    /\ [](\A k \in DOMAIN traffic_data : Len(traffic_data[k]) <= FeaturesWindow)
    /\ [][\A c \in Callers :
             (Calls(c) /\ pc'[c] # "done") =>
                 LET old == TrafficGet(traffic_data, req_ip'[c])
                     new == traffic_data'[req_ip'[c]]
                 IN  Len(old) = FeaturesWindow =>
                        /\ Len(new) = FeaturesWindow
                        /\ \A i \in 1..(FeaturesWindow - 1) : new[i] = old[i + 1]
                        /\ new[FeaturesWindow].timestamp
                              = ip_timestamps'[req_ip'[c]][Len(ip_timestamps'[req_ip'[c]])]]_vars

C9_Witness ==
    \E c \in Callers :
        /\ pc[c] = "clean_read"
        /\ now = 0
        /\ Len(traffic_data[req_ip[c]]) = FeaturesWindow
        /\ Len(ip_timestamps[req_ip[c]]) = FeaturesWindow + 1
        /\ traffic_data[req_ip[c]][1].timestamp # ip_timestamps[req_ip[c]][1]

(* C10: a request that lacks one of ip, timestamp, bytes_sent is allowed and *)
(* changes nothing in the detector.                                          *)
C10_IncompleteInput ==
    [][\A c \in Callers :
          (Calls(c) /\ req_fields'[c] # RequiredFields)
              => /\ pc'[c] = "done"
                 /\ result'[c] = "True"
                 /\ UNCHANGED <<store_vars, registry_vars, model, disk>>]_vars

C10_Witness ==
    \E c \in Callers :
        /\ pc[c] = "done"
        /\ result[c] = "True"
        /\ req_fields[c] = RequiredFields \ {"bytes_sent"}
        /\ DOMAIN traffic_data \cap ActiveKeys = {}
        /\ request_count > BaseCount

(* C11: for one trace of record_request calls and sweeps, with one score for *)
(* one population and key, the detector with the higher block_threshold     *)
(* never has more keys in Blocked than the one with the lower.              *)
C11_ThresholdMonotonic ==
    Cardinality(runs[HigherThreshold].blocked_ips)
        <= Cardinality(runs[BlockThreshold].blocked_ips)

(* C12: a key in neither Blocked nor FalsePositive that is scored with s is  *)
(* added to Suspicious iff s > block_threshold and to Blocked iff moreover   *)
(* s > 1.5 block_threshold on the inline path (the call then returns false)  *)
(* or s > 1.3 block_threshold in the sweep; with s <= block_threshold the    *)
(* inline call returns true and no registry changes.  A key the policy       *)
(* blocks is in Suspicious.                                                  *)
C12_DecisionPolicy ==
    [][\A t \in Callers \cup {"sweep"} :
          LET inline == t \in Callers
              key == IF inline THEN req_ip[t] ELSE sweep_ip
              flag == score' > BlockThreshold
              block == flag /\ IF inline THEN 2 * score' > 3 * BlockThreshold
                                         ELSE 10 * score' > 13 * BlockThreshold
          IN  (/\ pc[t] = IF inline THEN "score" ELSE "sweep_decide"
               /\ pc'[t] # pc[t]
               /\ score' # 0
               /\ key \notin blocked_ips \cup false_positives)
              => /\ suspicious_ips' = IF flag THEN suspicious_ips \cup {key}
                                              ELSE suspicious_ips
                 /\ blocked_ips' = IF block THEN blocked_ips \cup {key} ELSE blocked_ips
                 /\ blocked_ips' \subseteq blocked_ips \cup suspicious_ips'
                 /\ UNCHANGED false_positives
                 /\ inline => IF block THEN pc'[t] = "save_snap"
                                       ELSE pc'[t] = "done" /\ result'[t] = "True"]_vars

C12_Witness ==
    \E c \in Callers :
        /\ score = 55
        /\ pc[c] = "done"
        /\ ret_at[c] = 282
        /\ req_ip[c] \in suspicious_ips \ blocked_ips

(* C13: an inline call scores its key with the ensemble that its own fit     *)
(* produced, together with its normalization: when the call scores, the      *)
(* shared model still holds that call's fit.                                 *)
C13_ModelSnapshot ==
    [][\A c \in Callers :
          (/\ pc[c] = "score"
           /\ pc'[c] # "score"
           /\ req_ip[c] \in DOMAIN ip_features)
              => model = c]_vars

(* C14: a record_request for a key that is not blocked returns true and adds *)
(* nothing to Blocked or Suspicious when, at the test the code makes, the    *)
(* window holds fewer than min(5, featuresWindow) records, or the key has no *)
(* cached feature vector, or at most 10 sources have cached feature vectors. *)
C14_FailOpen ==
    [][\A c \in Callers :
          LET window == TrafficGet(traffic_data, req_ip[c])
              few == IF FeaturesWindow < 5 THEN FeaturesWindow ELSE 5
              insufficient ==
                  \/ pc[c] = "len" /\ Len(window) < few
                  \/ pc[c] = "len" /\ Len(window) < 2 /\ req_ip[c] \notin DOMAIN ip_features
                  \/ pc[c] = "store" /\ Cardinality(DOMAIN ip_features \cup {req_ip[c]}) <= 10
                  \/ pc[c] = "check" /\ Cardinality(DOMAIN ip_features) < 10
                  \/ pc[c] = "score" /\ req_ip[c] \notin DOMAIN ip_features
          IN  (insufficient /\ pc'[c] # pc[c])
                 => /\ pc'[c] = "done"
                    /\ result'[c] = "True"
                    /\ UNCHANGED <<blocked_ips, suspicious_ips>>]_vars

C14_Witness ==
    \E c \in Callers :
        /\ pc[c] = "done"
        /\ result[c] = "True"
        /\ ret_at[c] = 152
        /\ req_ip[c] \in DOMAIN ip_features
        /\ Len(traffic_data[req_ip[c]]) = FeaturesWindow
        /\ Cardinality(DOMAIN ip_features) <= 10
        /\ req_ip[c] \notin blocked_ips \cup suspicious_ips

(* C15: when record_request or an iteration of the sweep has completed, no   *)
(* key is tracked with an empty window: a key whose records had all expired  *)
(* is absent from the timestamp index, the window store and the feature      *)
(* cache.  Stated for the states in which no call and no iteration is under  *)
(* way.                                                                      *)
C15_FullEviction ==
    (/\ \A c \in Callers : pc[c] \in {"idle", "done"}
     /\ pc["sweep"] \in {"top", "sleep", "exit"})
        => \A k \in DOMAIN traffic_data \cup DOMAIN ip_features :
              /\ k \in DOMAIN traffic_data
              /\ traffic_data[k] # <<>>
              /\ k \in DOMAIN ip_timestamps

(* C16: in every window and in every list of the timestamp index the         *)
(* timestamps are non-decreasing in insertion order.                         *)
C16_TimestampsOrdered ==
    /\ \A k \in DOMAIN traffic_data : InOrder(Timestamps(traffic_data[k]))
    /\ \A k \in DOMAIN ip_timestamps : InOrder(ip_timestamps[k])

(* C17: a failure inside an iteration of the sweep is caught and takes the   *)
(* thread back to the loop test; unless the detector is shut down, the       *)
(* thread then starts another iteration.                                     *)
C17_LoopResilience ==
    /\ [][(sweep_caught' /\ ~sweep_caught) => pc'["sweep"] = "top"]_vars
    /\ (sweep_caught /\ running) ~> (pc["sweep"] = "sleep" \/ ~running)

C17_Witness ==
    /\ sweep_caught
    /\ pc["sweep"] = "top"
    /\ running
    /\ \E c \in Callers : req_ip[c] \notin DOMAIN ip_timestamps /\ pc[c] = "len"

(* C18: once shutdown has cleared the flag, the loop test leads out of the   *)
(* loop, so that no iteration starts after the one in progress or pending,   *)
(* and the thread eventually exits.                                          *)
C18_SweepTerminates ==
    /\ [][(~running /\ pc["sweep"] = "top" /\ pc'["sweep"] # "top")
             => pc'["sweep"] = "exit"]_vars
    /\ ~running ~> pc["sweep"] = "exit"

C18_Witness ==
    /\ ~running
    /\ pc["sweep"] = "exit"
    /\ pc["main"] = "save_snap"
    /\ model = "sweep"

(* C19: when no record_request is in progress and the periodic task is       *)
(* between two iterations, every key with a cached feature vector is in the  *)
(* timestamp index, where the next prune will find it.                       *)
C19_NoOrphanFeatures ==
    (/\ \A c \in Callers : pc[c] \in {"idle", "done"}
     /\ pc["sweep"] \in {"top", "sleep", "exit"})
        => DOMAIN ip_features \subseteq DOMAIN ip_timestamps

(* C20: when no thread is between a change of Blocked or FalsePositive and   *)
(* the end of the save that follows it, the persisted lists equal the        *)
(* in-memory sets.                                                           *)
C20_PersistedCurrent ==
    (\A t \in Threads : pc[t] \notin {"save_snap", "save_write"})
        => disk = Persisted

(* C21: no step of record_request, of the periodic task, of a prune, of      *)
(* unblock_ip or of shutdown takes a key out of Suspicious.                  *)
C21_SuspiciousGrows ==
    [][suspicious_ips \subseteq suspicious_ips']_vars

\* a flagged key that was unblocked, marked false positive and evicted
C21_Witness ==
    \E k \in suspicious_ips :
        /\ k \notin blocked_ips
        /\ k \in false_positives
        /\ k \notin DOMAIN ip_timestamps
        /\ k \notin DOMAIN ip_features
        /\ pc["admin"] = "done"

====
